---------------------------- MODULE Spec2Model ----------------------------
(***************************************************************************)
(* A model of the toy PostgreSQL driver: the message codec of              *)
(* src/src/message.rs (to_bytes, read_message, write_message) and the      *)
(* connection driver of src/src/main.rs (run).                             *)
(*                                                                         *)
(* Bytes are the integers 0..255.  A Rust String / Vec<u8> is a sequence   *)
(* of bytes (a String is its UTF-8 encoding).                              *)
(***************************************************************************)
EXTENDS Integers, Sequences, FiniteSets, TLC

(***************************************************************************)
(* Byte-level helpers                                                      *)
(***************************************************************************)

\* ASCII codes of the characters the source names.
chR == 82
chE == 69
chK == 75
chZ == 90
chS == 83
chI == 73
chT == 84
chp == 112
chQ == 81

\* A u32 read from the wire is kept as its two 16-bit halves, [hi, lo], of
\* value hi * 2^16 + lo: every u32 is then within the checker's integers, and
\* the arithmetic on it is arithmetic modulo 2^32.
U16 == 65536

\* s[from..to) in Rust's half-open, 0-based slice notation (from <= to <= len).
Slice(s, from, to) == [i \in 1..(to - from) |-> s[from + i]]

RECURSIVE Concat(_)
\* [a, b, c].concat()
Concat(ss) == IF ss = <<>> THEN <<>> ELSE Head(ss) \o Concat(Tail(ss))

\* u16::to_be_bytes
process_u16(n) == << (n \div 256) % 256, n % 256 >>

\* u32::to_be_bytes
process_u32(n) ==
    << (n \div 16777216) % 256, (n \div 65536) % 256, (n \div 256) % 256, n % 256 >>

\* &str / String: the UTF-8 bytes followed by one null byte
process_str(s) == Append(s, 0)

\* u32::from_be_bytes
u32_from_be_bytes(b) == [hi |-> b[1] * 256 + b[2], lo |-> b[3] * 256 + b[4]]

\* x == n and x > n, for a u32 x and a number n below 2^31
u32_is(x, n) == x.hi = n \div U16 /\ x.lo = n % U16

u32_exceeds(x, n) == x.hi > n \div U16 \/ (x.hi = n \div U16 /\ x.lo > n % U16)

\* x as usize, for an x below 2^31
u32_to_usize(x) == x.hi * U16 + x.lo

\* x.wrapping_sub(4)
wrapping_sub4(x) ==
    IF x.lo >= 4 THEN [hi |-> x.hi, lo |-> x.lo - 4]
    ELSE [hi |-> (x.hi + U16 - 1) % U16, lo |-> (x.lo + U16) - 4]

(***************************************************************************)
(* FrontendMessage and its encoding                                        *)
(***************************************************************************)

RequestSSL == [variant |-> "RequestSSL", user |-> <<>>, database |-> <<>>,
               password |-> <<>>, query |-> <<>>]

StartupMessage(u, d) == [variant |-> "StartupMessage", user |-> u, database |-> d,
                         password |-> <<>>, query |-> <<>>]

PasswordMessage(p) == [variant |-> "PasswordMessage", user |-> <<>>, database |-> <<>>,
                       password |-> p, query |-> <<>>]

SimpleQuery(q) == [variant |-> "SimpleQuery", user |-> <<>>, database |-> <<>>,
                   password |-> <<>>, query |-> q]

\* Mutant: the length field counts the payload alone.
encode_size_payload_only(n) == n

\* The length field of encode!: result.len() as u32 + 4.  A payload held in
\* the model is shorter than 2^31 - 4 bytes, so neither the cast nor the
\* addition leaves the u32 range.
encode_size(n) == n + 4

\* encode!(prefix, args...): args are the already processed fields.
encode(prefix, args) ==
    LET result == Concat(args)
        size   == process_u32(encode_size(Len(result)))
    IN  Concat(<< prefix, size, result >>)

\* "user" and "database" as bytes
strUser == << 117, 115, 101, 114 >>
strDatabase == << 100, 97, 116, 97, 98, 97, 115, 101 >>

\* Mutant: the password message is tagged 'P'.
frontend_prefix_upper(m) ==
    CASE m.variant = "RequestSSL"      -> <<>>
      [] m.variant = "StartupMessage"  -> <<>>
      [] m.variant = "PasswordMessage" -> << 80 >>
      [] m.variant = "SimpleQuery"     -> << chQ >>

\* The tag each variant passes to encode! ("" for the untagged ones).
frontend_prefix(m) ==
    CASE m.variant = "RequestSSL"      -> <<>>
      [] m.variant = "StartupMessage"  -> <<>>
      [] m.variant = "PasswordMessage" -> << chp >>
      [] m.variant = "SimpleQuery"     -> << chQ >>

\* The processed fields each variant passes to encode!.
frontend_fields(m) ==
    CASE m.variant = "RequestSSL" ->
            << process_u16(1234), process_u16(5679), process_str(<<>>) >>
      [] m.variant = "StartupMessage" ->
            << process_u16(3), process_u16(0),
               process_str(strUser), process_str(m.user),
               process_str(strDatabase), process_str(m.database),
               process_str(<<>>) >>
      [] m.variant = "PasswordMessage" ->
            << process_str(m.password), process_str(<<>>) >>
      [] m.variant = "SimpleQuery" ->
            << process_str(m.query) >>

\* FrontendMessage::to_bytes
to_bytes(m) == encode(frontend_prefix(m), frontend_fields(m))

(***************************************************************************)
(* BackendMessage and its decoding                                         *)
(***************************************************************************)

\* A BackendMessage value.  Every variant is a record of the same shape; the
\* fields a variant does not have keep their defaults.
\*   mechanisms : Vec<String>              (AuthenticationSasl)
\*   error      : HashMap<ErrorField, String> as a set of <<field, value>>
\*                pairs with one pair per field      (ErrorResponse)
\*   process_id (a u32, as halves), secret_key  (BackendKeyData)
\*   status                                (ReadyForQuery)
\*   name, value                           (ParameterStatus)
\*   prefix, payload                       (Unknown)
BackendMessage(v) ==
    [variant |-> v, mechanisms |-> <<>>, error |-> {}, process_id |-> [hi |-> 0, lo |-> 0],
     secret_key |-> 0, status |-> "", name |-> <<>>, value |-> <<>>,
     prefix |-> 0, payload |-> <<>>]

AuthenticationOk == BackendMessage("AuthenticationOk")

AuthenticationCleartextPassword == BackendMessage("AuthenticationCleartextPassword")

AuthenticationSasl(ms) == [BackendMessage("AuthenticationSasl") EXCEPT !.mechanisms = ms]

ErrorResponse(e) == [BackendMessage("ErrorResponse") EXCEPT !.error = e]

BackendKeyData(pid, key) ==
    [BackendMessage("BackendKeyData") EXCEPT !.process_id = pid, !.secret_key = key]

ReadyForQuery(st) == [BackendMessage("ReadyForQuery") EXCEPT !.status = st]

ParameterStatus(n, v) == [BackendMessage("ParameterStatus") EXCEPT !.name = n, !.value = v]

\* Mutant: the payload of an unrecognised frame is dropped.
Unknown_without_payload(p, body) == [BackendMessage("Unknown") EXCEPT !.prefix = p]

Unknown(p, body) == [BackendMessage("Unknown") EXCEPT !.prefix = p, !.payload = body]

\* The outcome of read_message: Ok(message), Err(IoError), Err(ParseError), or
\* a panic that unwinds out of the function.  consumed counts the bytes taken
\* from the reader.
ReadOk(m, n) == [kind |-> "Ok", message |-> m, consumed |-> n]

ReadErr(k, n) == [kind |-> k, message |-> BackendMessage("None"), consumed |-> n]

\* The width of the well-formed UTF-8 scalar starting at s[i] (1-based), or 0
\* when the bytes at i are not well-formed UTF-8 (core::str::from_utf8).
Utf8Width(s, i) ==
    LET n == Len(s)
        b == s[i]
        cont(j) == j <= n /\ s[j] >= 128 /\ s[j] <= 191
        in(j, lo, hi) == j <= n /\ s[j] >= lo /\ s[j] <= hi
    IN  CASE b <= 127 -> 1
          [] b >= 194 /\ b <= 223 -> IF cont(i + 1) THEN 2 ELSE 0
          [] b = 224 -> IF in(i + 1, 160, 191) /\ cont(i + 2) THEN 3 ELSE 0
          [] (b >= 225 /\ b <= 236) \/ b = 238 \/ b = 239 ->
                IF cont(i + 1) /\ cont(i + 2) THEN 3 ELSE 0
          [] b = 237 -> IF in(i + 1, 128, 159) /\ cont(i + 2) THEN 3 ELSE 0
          [] b = 240 ->
                IF in(i + 1, 144, 191) /\ cont(i + 2) /\ cont(i + 3) THEN 4 ELSE 0
          [] b >= 241 /\ b <= 243 ->
                IF cont(i + 1) /\ cont(i + 2) /\ cont(i + 3) THEN 4 ELSE 0
          [] b = 244 ->
                IF in(i + 1, 128, 143) /\ cont(i + 2) /\ cont(i + 3) THEN 4 ELSE 0
          [] OTHER -> 0

RECURSIVE Utf8ValidFrom(_, _)
Utf8ValidFrom(s, i) ==
    IF i > Len(s) THEN TRUE
    ELSE LET w == Utf8Width(s, i)
         IN  IF w = 0 THEN FALSE ELSE Utf8ValidFrom(s, i + w)

\* str::from_utf8(s).is_ok()
\* Mutant: the bytes are taken as text without validation.
from_utf8_unchecked(s) == TRUE

from_utf8_ok(s) == Utf8ValidFrom(s, 1)

RECURSIVE SplitFrom(_, _, _)
SplitFrom(s, i, cur) ==
    IF i > Len(s) THEN << cur >>
    ELSE IF s[i] = 0 THEN << cur >> \o SplitFrom(s, i + 1, <<>>)
    ELSE SplitFrom(s, i + 1, Append(cur, s[i]))

\* str::split('\0'): the pieces between null bytes; always at least one piece.
split_nul(s) == SplitFrom(s, 1, <<>>)

\* The ErrorField a record's first character selects; a field is the pair
\* <<variant, c>>, c being the character of Unknown(c) and 0 otherwise.
error_field(c) ==
    CASE c = 83  -> << "LocalizedSeverity", 0 >>
      [] c = 86  -> << "Severity", 0 >>
      [] c = 67  -> << "Code", 0 >>
      [] c = 77  -> << "Message", 0 >>
      [] c = 68  -> << "Detail", 0 >>
      [] c = 72  -> << "Hint", 0 >>
      [] c = 80  -> << "Position", 0 >>
      [] c = 112 -> << "InternalPosition", 0 >>
      [] c = 113 -> << "InternalQuery", 0 >>
      [] c = 87  -> << "Where", 0 >>
      [] c = 115 -> << "SchemaName", 0 >>
      [] c = 116 -> << "TableName", 0 >>
      [] c = 99  -> << "ColumnName", 0 >>
      [] c = 100 -> << "DataTypeName", 0 >>
      [] c = 110 -> << "ConstraintName", 0 >>
      [] c = 70  -> << "File", 0 >>
      [] c = 76  -> << "Line", 0 >>
      [] c = 82  -> << "Routine", 0 >>
      [] OTHER   -> << "Unknown", c >>

\* s[1..] of a record panics when byte index 1 is past the end (the empty
\* record) or is not a character boundary (a multi-byte first character).
record_panics(s) == Len(s) = 0 \/ Utf8Width(s, 1) # 1

\* The (field, value) pair the closure builds from one record that does not
\* panic: its first character is then a single byte.
record_entry(s) == << error_field(s[1]), Slice(s, 1, Len(s)) >>

RECURSIVE collect_map(_, _)
\* Iterator::collect into a HashMap: a later pair replaces an earlier pair
\* with the same key.
collect_map(pairs, acc) ==
    IF pairs = <<>> THEN acc
    ELSE LET p == Head(pairs)
         IN  collect_map(Tail(pairs), {q \in acc : q[1] # p[1]} \cup {p})

\* The index (0-based) of the first null byte, or -1: Iterator::position.
position_nul(s) ==
    IF \E i \in 1..Len(s) : s[i] = 0
    THEN (CHOOSE i \in 1..Len(s) : s[i] = 0 /\ \A j \in 1..(i - 1) : s[j] # 0) - 1
    ELSE -1

\* i32::from_be_bytes: two's complement
i32_from_be_bytes(b) ==
    (IF b[1] >= 128 THEN b[1] - 256 ELSE b[1]) * 16777216
        + b[2] * 65536 + b[3] * 256 + b[4]

\* The AuthenticationSasl arm, entered with payload[0..4] == [0, 0, 0, 10].
decode_sasl(n, payload) ==
    IF 4 > Len(payload) - 2 THEN ReadErr("Panic", n)
    ELSE LET text == Slice(payload, 4, Len(payload) - 2)
         IN  IF ~from_utf8_ok(text) THEN ReadErr("ParseError", n)
             ELSE ReadOk(AuthenticationSasl(split_nul(text)), n)

\* The ErrorResponse arm.  payload.len() - 2 underflows for a payload shorter
\* than 2 bytes: a panic with overflow checks, and without them a slice end
\* past the payload, which panics too.
decode_error(n, payload) ==
    IF Len(payload) < 2 THEN ReadErr("Panic", n)
    ELSE LET text    == Slice(payload, 0, Len(payload) - 2)
             records == split_nul(text)
         IN  IF ~from_utf8_ok(text) THEN ReadErr("ParseError", n)
             ELSE IF \E i \in 1..Len(records) : record_panics(records[i])
                  THEN ReadErr("Panic", n)
             ELSE ReadOk(ErrorResponse(collect_map(
                      [i \in 1..Len(records) |-> record_entry(records[i])], {})), n)

\* The BackendKeyData arm.
decode_key_data(n, payload) ==
    IF Len(payload) < 4 THEN ReadErr("Panic", n)
    ELSE IF Len(payload) # 8 THEN ReadErr("ParseError", n)
    ELSE ReadOk(BackendKeyData(u32_from_be_bytes(Slice(payload, 0, 4)),
                               i32_from_be_bytes(Slice(payload, 4, 8))), n)

\* Mutant: an unrecognised status byte counts as Idle.
decode_ready_lenient(n, payload) ==
    IF Len(payload) < 1 THEN ReadErr("Panic", n)
    ELSE CASE payload[1] = chT -> ReadOk(ReadyForQuery("Transaction"), n)
           [] payload[1] = chE -> ReadOk(ReadyForQuery("FailedTransaction"), n)
           [] OTHER            -> ReadOk(ReadyForQuery("Idle"), n)

\* The ReadyForQuery arm.
decode_ready(n, payload) ==
    IF Len(payload) < 1 THEN ReadErr("Panic", n)
    ELSE CASE payload[1] = chI -> ReadOk(ReadyForQuery("Idle"), n)
           [] payload[1] = chT -> ReadOk(ReadyForQuery("Transaction"), n)
           [] payload[1] = chE -> ReadOk(ReadyForQuery("FailedTransaction"), n)
           [] OTHER            -> ReadErr("ParseError", n)

\* The ParameterStatus arm.
decode_parameter(n, payload) ==
    LET index == position_nul(payload)
    IN  IF index < 0 THEN ReadErr("ParseError", n)
        ELSE IF ~from_utf8_ok(Slice(payload, 0, index)) THEN ReadErr("ParseError", n)
        ELSE IF index + 1 > Len(payload) - 1 THEN ReadErr("Panic", n)
        ELSE IF ~from_utf8_ok(Slice(payload, index + 1, Len(payload) - 1))
             THEN ReadErr("ParseError", n)
        ELSE ReadOk(ParameterStatus(Slice(payload, 0, index),
                                    Slice(payload, index + 1, Len(payload) - 1)), n)

\* match (prefix, length, body): the arms in source order.  A guard that
\* takes payload[0..4] panics on a payload shorter than 4 bytes.  n is the
\* number of bytes read_message has consumed.
decode(n, prefix, length, payload) ==
    CASE prefix = chR /\ u32_is(length, 8) /\ payload = << 0, 0, 0, 3 >> ->
            ReadOk(AuthenticationCleartextPassword, n)
      [] prefix = chR /\ ~(u32_is(length, 8) /\ payload = << 0, 0, 0, 3 >>) ->
            IF Len(payload) < 4 THEN ReadErr("Panic", n)
            ELSE IF u32_is(length, 8) /\ Slice(payload, 0, 4) = << 0, 0, 0, 0 >>
                 THEN ReadOk(AuthenticationOk, n)
            ELSE IF Slice(payload, 0, 4) = << 0, 0, 0, 10 >>
                 THEN decode_sasl(n, payload)
            ELSE ReadOk(Unknown(prefix, payload), n)
      [] prefix = chE -> decode_error(n, payload)
      [] prefix = chK /\ u32_is(length, 12) -> decode_key_data(n, payload)
      [] prefix = chZ /\ u32_is(length, 5) -> decode_ready(n, payload)
      [] prefix = chS -> decode_parameter(n, payload)
      [] OTHER -> ReadOk(Unknown(prefix, payload), n)

\* length - 4 in u32 panics on a length below 4 when the build has overflow
\* checks (the debug profile) and wraps when it has none (the release
\* profile).
sub4_panics(overflow_checks, length) == overflow_checks /\ ~u32_exceeds(length, 3)

\* The number of payload bytes read_message asks for: (length - 4) as usize;
\* the try_into cannot fail where usize has 32 bits or more.
body_len(length) == wrapping_sub4(length)

\* read_message on a reader that holds the bytes of stream and then reports
\* end of file.  read_exact on a short reader takes what is there and fails
\* with UnexpectedEof.
read_message(overflow_checks, stream) ==
    IF Len(stream) < 1 THEN ReadErr("IoError", Len(stream))
    ELSE IF Len(stream) < 5 THEN ReadErr("IoError", Len(stream))
    ELSE LET prefix == stream[1]
             length == u32_from_be_bytes(Slice(stream, 1, 5))
             need   == body_len(length)
         IN  IF sub4_panics(overflow_checks, length) THEN ReadErr("Panic", 5)
             ELSE IF u32_exceeds(need, Len(stream) - 5)
                  THEN ReadErr("IoError", Len(stream))
             ELSE decode(5 + u32_to_usize(need), prefix, length,
                         Slice(stream, 5, 5 + u32_to_usize(need)))

(***************************************************************************)
(* Bounds and inputs                                                       *)
(***************************************************************************)

\* The driver loop is followed for at most MaxReads calls of read_message.
MaxReads == 4

\* "SELECT * FROM my_table LIMIT 3;"
FixedQuery ==
    << 83, 69, 76, 69, 67, 84, 32, 42, 32, 70, 82, 79, 77, 32, 109, 121, 95,
       116, 97, 98, 108, 101, 32, 76, 73, 77, 73, 84, 32, 51, 59 >>

\* The configurations run is started with (what load_config_from_env returns).
Configs ==
    { [user |-> << 117 >>, database |-> << 100, 98 >>, password |-> << 112, 119 >>],
      [user |-> << 97 >>, database |-> <<>>, password |-> <<>>] }

\* A backend frame as a server writes it: tag, length of length-plus-payload,
\* payload.
ServerFrame(tag, payload) == << tag >> \o process_u32(Len(payload) + 4) \o payload

\* What the server's stream holds for one call of read_message in the driver
\* loop: one frame of each backend variant, and the streams on which the call
\* fails (end of file, a bad status byte, a length below 4, a short 'R').
ServerStreams ==
    { ServerFrame(chR, << 0, 0, 0, 3 >>),
      ServerFrame(chR, << 0, 0, 0, 0 >>),
      ServerFrame(chR, << 0, 0, 0, 10, 65, 0, 0 >>),
      ServerFrame(chE, << 83, 120, 0, 0 >>),
      ServerFrame(chK, << 0, 0, 0, 7, 255, 255, 255, 254 >>),
      ServerFrame(chZ, << chI >>),
      ServerFrame(chZ, << chT >>),
      ServerFrame(chZ, << chE >>),
      ServerFrame(chS, << 97, 0, 98, 0 >>),
      ServerFrame(68, << 1 >>),
      <<>>,
      << chZ, 0, 0 >>,
      ServerFrame(chZ, << 88 >>),
      << chZ, 0, 0, 0, 2 >>,
      ServerFrame(chR, << 0 >>) }

\* The bytes the server may answer the SSL request with; the one-byte read
\* ends in an error ("err"), in Ok(0) with nothing delivered ("eof"), or in
\* Ok(1) with one of these bytes ("byte").
AckBytes == { chS, 78, 0 }

AckOutcomes == { "err", "eof", "byte" }

(***************************************************************************)
(* The connection driver: run                                              *)
(***************************************************************************)

VARIABLES
    config,           \* the Config run was called with
    overflow_checks,  \* the build profile: TRUE for debug, FALSE for release
    pc,               \* where run is
    result,           \* "Running", "Ok", a RuntimeError variant, or "Panic"
    buf,              \* the one-byte buffer of the SSL answer
    requested,        \* the local of that name
    sent,             \* the FrontendMessages whose write_all returned Ok
    wire,             \* the bytes written to the stream
    received,         \* the BackendMessages read_message returned
    trace,            \* println records and stream operations, in order
    reads,            \* calls of read_message so far
    fault,            \* the first step that failed, "" while none has
    enc,              \* codec check: a FrontendMessage and its to_bytes
    dec               \* codec check: a stream and read_message's outcome on it

driver_vars == << config, overflow_checks, pc, result, buf, requested, sent, wire,
                  received, trace, reads, fault >>

codec_vars == << enc, dec >>

vars == << driver_vars, codec_vars >>

\* One record of trace: op is "println", "write" or "read"; dir is the arrow
\* a println prints; what names the message variant.
Event(op, dir, what) == [op |-> op, dir |-> dir, what |-> what]

\* enc and dec are idle ("none") in the driver's specification; in the codec's
\* they hold an input ("input") and then the function's value on it ("done").
NoEnc == [state |-> "none", message |-> RequestSSL, bytes |-> <<>>]

NoDec == [state |-> "none", stream |-> <<>>, overflow_checks |-> FALSE,
          outcome |-> ReadErr("None", 0)]

Init ==
    /\ config \in Configs
    /\ overflow_checks \in BOOLEAN
    /\ pc = "connect"
    /\ result = "Running"
    /\ buf = 0
    /\ requested = FALSE
    /\ sent = <<>>
    /\ wire = <<>>
    /\ received = <<>>
    /\ trace = <<>>
    /\ reads = 0
    /\ fault = ""
    /\ enc = NoEnc
    /\ dec = NoDec

\* Mutant: the error of a failed step is dropped and run goes on.
returns_err_never(ok) == FALSE

\* The ? operator on a Result: TRUE when it returns from run with the error.
returns_err(ok) == ~ok

\* One fallible step of run, ok telling whether the operation succeeded: on
\* failure the ? returns Err(kind) from run, and main reports it and exits;
\* on success run goes on at next.  fault records the operation that failed.
Try(ok, step, kind, next) ==
    /\ fault' = (IF ok THEN fault ELSE step)
    /\ IF returns_err(ok)
       THEN pc' = "exit" /\ result' = kind
       ELSE pc' = next /\ result' = result

\* Mutant: the answer to the SSL request is not checked.
ack_accepted_any(b) == TRUE

\* assert!(buf == "S".as_bytes())
ack_accepted(b) == b = chS

\* From<ReadMessageError> for RuntimeError
runtime_error(kind) ==
    CASE kind = "IoError"    -> "IoError"
      [] kind = "ParseError" -> "ParseMessageError"
      [] OTHER               -> "Panic"

\* Mutant: AuthenticationOk is answered with the password too.
loop_arm_auth_ok(message, req) ==
    CASE message.variant \in { "AuthenticationCleartextPassword", "AuthenticationOk" } ->
            "password"
      [] message.variant = "ReadyForQuery" /\ message.status = "Idle" ->
            IF ~req THEN "query" ELSE "return"
      [] OTHER -> "continue"

\* Mutant: the requested flag is not consulted.
loop_arm_no_flag(message, req) ==
    CASE message.variant = "AuthenticationCleartextPassword" -> "password"
      [] message.variant = "ReadyForQuery" /\ message.status = "Idle" -> "query"
      [] OTHER -> "continue"

\* Mutant: every ReadyForQuery counts, whatever its status.
loop_arm_any_status(message, req) ==
    CASE message.variant = "AuthenticationCleartextPassword" -> "password"
      [] message.variant = "ReadyForQuery" -> IF ~req THEN "query" ELSE "return"
      [] OTHER -> "continue"

\* Mutant: the second Idle is ignored instead of ending the run.
loop_arm_never_returns(message, req) ==
    CASE message.variant = "AuthenticationCleartextPassword" -> "password"
      [] message.variant = "ReadyForQuery" /\ message.status = "Idle" ->
            IF ~req THEN "query" ELSE "continue"
      [] OTHER -> "continue"

\* The arm of the loop's match a message takes: "password" and "query" write
\* a message, "return" is return Ok(()), "continue" is an arm that does nothing.
loop_arm(message, req) ==
    CASE message.variant = "AuthenticationCleartextPassword" -> "password"
      [] message.variant = "ReadyForQuery" /\ message.status = "Idle" ->
            IF ~req THEN "query" ELSE "return"
      [] OTHER -> "continue"

\* The messages run builds from its Config.
startup_message(cfg) == StartupMessage(cfg.user, cfg.database)

\* Mutant: the password message carries the user name.
password_message_user(cfg) == PasswordMessage(cfg.user)

password_message(cfg) == PasswordMessage(cfg.password)

query_message == SimpleQuery(FixedQuery)

\* writer.write_all(&message.to_bytes()), ok telling whether it succeeds.
\* Write::write_all calls write until the whole buffer is taken: when a call
\* fails, or returns Ok(0), after the writer took some of the bytes, those
\* bytes are on the stream and write_all returns the error.
write_all(message, ok) ==
    IF ok
    THEN /\ sent' = Append(sent, message)
         /\ wire' = wire \o to_bytes(message)
    ELSE /\ sent' = sent
         /\ \E taken \in 0..(Len(to_bytes(message)) - 1) :
                wire' = wire \o Slice(to_bytes(message), 0, taken)

\* The records write_message adds to trace: the println, then the write.
write_events(message, ok) ==
    << Event("println", "-->", message.variant) >>
        \o (IF ok THEN << Event("write", "", message.variant) >> ELSE <<>>)

\* write_message(writer, message), tr being the trace up to the call
write_message(tr, message, ok) ==
    /\ write_all(message, ok)
    /\ trace' = tr \o write_events(message, ok)

\* The records a call of read_message adds to trace: the reads from the
\* stream, named by what they led to, then the println of a decoded message.
read_events(r) ==
    IF r.kind = "Ok"
    THEN << Event("read", "", r.message.variant),
            Event("println", "<--", r.message.variant) >>
    ELSE << Event("read", "", r.kind) >>

\* TcpStream::connect(addr)?
Connect ==
    /\ pc = "connect"
    /\ \E ok \in BOOLEAN : Try(ok, "connect", "IoError", "request_ssl")
    /\ UNCHANGED << config, overflow_checks, buf, requested, sent, wire, received,
                    trace, reads, codec_vars >>

\* client.write_all(&FrontendMessage::RequestSSL.to_bytes())?
\* oks holds the outcomes the write may have: TRUE for success.
SendRequestSSLIf(oks) ==
    /\ pc = "request_ssl"
    /\ \E ok \in oks :
          /\ write_all(RequestSSL, ok)
          /\ trace' = trace
                \o (IF ok THEN << Event("write", "", "RequestSSL") >> ELSE <<>>)
          /\ Try(ok, "write", "IoError", "read_ack")
    /\ UNCHANGED << config, overflow_checks, buf, requested, received, reads,
                    codec_vars >>

SendRequestSSL == SendRequestSSLIf(BOOLEAN)

\* client.read(&mut buf)?; assert!(buf == "S".as_bytes());
\* Ok(0) leaves buf as it was initialised, [0].
ReadSSLAck ==
    /\ pc = "read_ack"
    /\ \E outcome \in AckOutcomes, b \in AckBytes :
          IF outcome = "err"
          THEN /\ Try(FALSE, "read", "IoError", "read_ack")
               /\ UNCHANGED << buf, trace >>
          ELSE /\ buf' = (IF outcome = "eof" THEN buf ELSE b)
               /\ trace' = Append(trace, Event("read", "", outcome))
               /\ fault' = (IF buf' = chS THEN fault ELSE "ack")
               /\ IF ack_accepted(buf')
                  THEN pc' = "tls" /\ result' = result
                  ELSE pc' = "exit" /\ result' = "Panic"
    /\ UNCHANGED << config, overflow_checks, requested, sent, wire, received, reads,
                    codec_vars >>

\* native_tls::TlsConnector::new()?.connect(&config.host, client)?
TlsUpgrade ==
    /\ pc = "tls"
    /\ \E outcome \in { "Ok", "TlsError", "TlsHandshakeError" } :
          Try(outcome = "Ok", "tls", outcome, "startup")
    /\ UNCHANGED << config, overflow_checks, buf, requested, sent, wire, received,
                    trace, reads, codec_vars >>

\* write_message(&mut client, StartupMessage { user, database })?
\* oks holds the outcomes the write may have.
SendStartupIf(oks) ==
    /\ pc = "startup"
    /\ \E ok \in oks :
          /\ write_message(trace, startup_message(config), ok)
          /\ Try(ok, "write", "IoError", "loop")
    /\ UNCHANGED << config, overflow_checks, buf, requested, received, reads,
                    codec_vars >>

SendStartup == SendStartupIf(BOOLEAN)

\* One turn of the loop on a message read_message returned: the match, with
\* ok telling whether the write of the arm (if it writes) succeeds and tr
\* being the trace up to the match.
Dispatch(tr, message, ok) ==
    LET arm == loop_arm(message, requested)
    IN  CASE arm = "password" ->
               /\ write_message(tr, password_message(config), ok)
               /\ Try(ok, "write", "IoError", "loop")
               /\ UNCHANGED requested
          [] arm = "query" ->
               /\ write_message(tr, query_message, ok)
               /\ Try(ok, "write", "IoError", "loop")
               /\ requested' = (IF returns_err(ok) THEN requested ELSE TRUE)
          [] arm = "return" ->
               /\ pc' = "exit"
               /\ result' = "Ok"
               /\ trace' = tr
               /\ UNCHANGED << requested, sent, wire, fault >>
          [] OTHER ->
               /\ trace' = tr
               /\ UNCHANGED << pc, result, requested, sent, wire, fault >>

\* let message = read_message(&mut client)?; match message { ... }
\* stream is what the server's stream holds for this call, oks the outcomes
\* the write of the arm may have.
LoopStepIf(oks) ==
    /\ pc = "loop"
    /\ reads < MaxReads
    /\ reads' = reads + 1
    /\ \E stream \in ServerStreams, ok \in oks :
          LET r == read_message(overflow_checks, stream)
          IN  IF r.kind = "Ok"
              THEN /\ received' = Append(received, r.message)
                   /\ Dispatch(trace \o read_events(r), r.message, ok)
              ELSE /\ Try(FALSE, "read_message", runtime_error(r.kind), "loop")
                   /\ trace' = trace \o read_events(r)
                   /\ UNCHANGED << received, requested, sent, wire >>
    /\ UNCHANGED << config, overflow_checks, buf, codec_vars >>

LoopStep == LoopStepIf(BOOLEAN)

Next ==
    \/ Connect
    \/ SendRequestSSL
    \/ ReadSSLAck
    \/ TlsUpgrade
    \/ SendStartup
    \/ LoopStep

Spec == Init /\ [][Next]_vars

(***************************************************************************)
(* The codec on its own: to_bytes and read_message applied to inputs drawn *)
(* from bounded sets                                                       *)
(***************************************************************************)

\* Strings have at most MaxStrLen bytes, bodies at most MaxBody.
MaxStrLen == 2

MaxBody == 3

\* All sequences over alphabet of length at most n.
SeqsUpTo(alphabet, n) == UNION { [1..k -> alphabet] : k \in 0..n }

\* The strings of a FrontendMessage's fields (a String may hold a null).
Strings == SeqsUpTo({ 0, 97, 98 }, MaxStrLen)

FrontendInputs ==
    { RequestSSL }
        \cup { StartupMessage(u, d) : u \in Strings, d \in Strings }
        \cup { PasswordMessage(pw) : pw \in Strings }
        \cup { SimpleQuery(q) : q \in Strings }
        \cup { startup_message(c) : c \in Configs }
        \cup { password_message(c) : c \in Configs }
        \cup { query_message }

\* The tags, length fields and bodies the decoder's input streams are made of.
Tags == { chR, chE, chK, chZ, chS, 68, 0 }

LengthFields ==
    { process_u32(n) : n \in 0..(MaxBody + 5) }
        \cup { << 0, 0, 1, 0 >>, << 0, 1, 0, 0 >>, << 128, 0, 0, 0 >>,
               << 255, 255, 255, 255 >> }

Bodies == SeqsUpTo({ 0, chI, 195 }, MaxBody)

\* The tags read_message has an arm for.
HandledTags == { chR, chE, chK, chZ, chS }

\* Whole frames, one set for each arm of the decoder.  195 169 is a
\* well-formed two-byte character; 195 or 169 alone is malformed UTF-8.
UnknownTagStreams ==
    { ServerFrame(t, b) : t \in (0..255) \ HandledTags, b \in Bodies }

ReadyStreams == { ServerFrame(chZ, << b >>) : b \in 0..255 }

AuthStreams ==
    { ServerFrame(chR, x) : x \in SeqsUpTo({ 0, 3, 10 }, MaxBody + 1) }
        \cup { ServerFrame(chR, << 0, 0, 0, 0, 1 >>), ServerFrame(chR, << 0, 0, 0, 3, 0 >>),
               ServerFrame(chR, << 0, 0, 0, 5 >>) }

SaslStreams ==
    { ServerFrame(chR, << 0, 0, 0, 10 >> \o x) :
          x \in SeqsUpTo({ 0, 65, 195, 169 }, MaxBody + 1) }
        \cup { ServerFrame(chR, << 0, 0, 0, 10, 65, 66, 0, 67, 0, 0 >>) }

ErrorStreams ==
    { ServerFrame(chE, x) : x \in SeqsUpTo({ 0, chS, 120, 195 }, MaxBody + 2) }
        \cup { ServerFrame(chE, << 83, 102, 97, 116, 97, 108, 0, 67, 99, 111, 100, 101, 0, 0 >>),
               ServerFrame(chE, << 195, 169, 97, 0, 0 >>),
               ServerFrame(chE, << 67, 195, 169, 0, 0 >>) }

ParameterStreams ==
    { ServerFrame(chS, x) : x \in SeqsUpTo({ 0, 97, 195, 169 }, MaxBody + 1) }

KeyStreams ==
    { ServerFrame(chK, x) :
          x \in { << 0, 0, 0, 7, 255, 255, 255, 254 >>, << 255, 255, 255, 255, 0, 0, 0, 1 >>,
                  << 1, 2, 3, 4, 128, 0, 0, 0 >>, << 0, 0, 0, 7, 0, 0, 0 >>,
                  << 0, 0, 0, 7, 0, 0, 0, 1, 0 >> } }

\* Streams shorter than a tag and a length, streams of a tag, a length and
\* the bytes that follow (fewer, as many, or more than the length asks for),
\* the streams of the driver's loop, and whole frames for each arm.
DecodeInputs ==
    { <<>>, << chZ >>, << chZ, 0 >>, << chR, 0, 0 >>, << chE, 0, 0, 0 >> }
        \cup { << t >> \o l \o b : t \in Tags, l \in LengthFields, b \in Bodies }
        \cup ServerStreams
        \cup UnknownTagStreams \cup ReadyStreams \cup AuthStreams \cup SaslStreams
        \cup ErrorStreams \cup ParameterStreams \cup KeyStreams

CodecInit ==
    /\ config = CHOOSE c \in Configs : TRUE
    /\ overflow_checks = FALSE
    /\ pc = "exit"
    /\ result = "Running"
    /\ buf = 0
    /\ requested = FALSE
    /\ sent = <<>>
    /\ wire = <<>>
    /\ received = <<>>
    /\ trace = <<>>
    /\ reads = 0
    /\ fault = ""
    /\ \/ /\ \E m \in FrontendInputs : enc = [NoEnc EXCEPT !.state = "input", !.message = m]
          /\ dec = NoDec
       \/ /\ enc = NoEnc
          /\ \E s \in DecodeInputs, oc \in BOOLEAN :
                dec = [NoDec EXCEPT !.state = "input", !.stream = s,
                                    !.overflow_checks = oc]

\* message.to_bytes()
Encode ==
    /\ enc.state = "input"
    /\ enc' = [enc EXCEPT !.state = "done", !.bytes = to_bytes(enc.message)]
    /\ UNCHANGED << driver_vars, dec >>

\* read_message(&mut reader)
Decode ==
    /\ dec.state = "input"
    /\ dec' = [dec EXCEPT !.state = "done",
                          !.outcome = read_message(dec.overflow_checks, dec.stream)]
    /\ UNCHANGED << driver_vars, enc >>

CodecNext ==
    \/ Encode
    \/ Decode

CodecSpec == CodecInit /\ [][CodecNext]_vars

(***************************************************************************)
(* Properties of the driver, checked under Spec                            *)
(***************************************************************************)

\* The number of elements of seq that satisfy P.
Count(seq, P(_)) == Cardinality({ i \in DOMAIN seq : P(seq[i]) })

IsIdle(m) == m.variant = "ReadyForQuery" /\ m.status = "Idle"

IsCleartext(m) == m.variant = "AuthenticationCleartextPassword"

IsQuery(m) == m.variant = "SimpleQuery"

IsPassword(m) == m.variant = "PasswordMessage"

\* The messages that take the loop's catch-all arm.
IsInert(m) ==
    \/ m.variant \in { "AuthenticationOk", "AuthenticationSasl", "BackendKeyData",
                       "ParameterStatus", "Unknown", "ErrorResponse" }
    \/ m.variant = "ReadyForQuery" /\ m.status \in { "Transaction", "FailedTransaction" }

ErrorResults == { "IoError", "ParseMessageError", "TlsHandshakeError", "TlsError", "Panic" }

\* The step from the current state read a message in the driver loop.
Received == Len(received') = Len(received) + 1

JustReceived == received'[Len(received')]

\* What the scripted server of the end-to-end scenario sends, in order.
Script ==
    << AuthenticationCleartextPassword, AuthenticationOk,
       ReadyForQuery("Idle"), ReadyForQuery("Idle") >>

\* What the driver has sent once it has read the first k messages of Script.
ScriptSent(k) ==
    << RequestSSL, StartupMessage(config.user, config.database) >>
        \o (IF k >= 1 THEN << PasswordMessage(config.password) >> ELSE <<>>)
        \o (IF k >= 3 THEN << SimpleQuery(FixedQuery) >> ELSE <<>>)

\* C1: against the scripted server (answer 'S', then
\* AuthenticationCleartextPassword, AuthenticationOk, ReadyForQuery{Idle},
\* ReadyForQuery{Idle}) and with no step failing, the driver has sent, at every
\* point of the script, exactly the messages due so far, in order; at the end
\* of the script it has sent [RequestSSL, StartupMessage, PasswordMessage,
\* SimpleQuery] and nothing else, and has returned Ok.
C1_EndToEnd ==
    \A k \in 0..Len(Script) :
        (pc \in { "loop", "exit" } /\ fault = "" /\ buf = chS
            /\ received = SubSeq(Script, 1, k))
        => /\ sent = ScriptSent(k)
           /\ (k = Len(Script)) <=> (pc = "exit")
           /\ (k = Len(Script)) => result = "Ok"
           /\ (k < Len(Script)) => result = "Running"

C1_Witness ==
    /\ received = Script
    /\ result = "Ok"
    /\ Len(sent) = 4

\* C2: SimpleQuery is sent at most once, exactly when the first
\* ReadyForQuery{Idle} arrives (and the write succeeds), which sets requested;
\* the second ReadyForQuery{Idle} ends the run with Ok; Ok is returned only
\* after SimpleQuery was sent and two ReadyForQuery{Idle} were received.
C2_QueryOnceThenOk ==
    LET idles   == Count(received, IsIdle)
        queries == Count(sent, IsQuery)
    IN  /\ queries <= 1
        /\ idles <= 2
        /\ requested <=> (queries = 1)
        /\ (idles = 0) => (queries = 0)
        /\ \A i \in DOMAIN sent : IsQuery(sent[i]) => sent[i] = SimpleQuery(FixedQuery)
        /\ (idles >= 1 /\ fault = "") => queries = 1
        /\ (idles = 2) => (result = "Ok" /\ pc = "exit" /\ IsIdle(received[Len(received)]))
        /\ (result = "Ok") => (queries = 1 /\ idles = 2)

C2_Witness ==
    /\ result = "Ok"
    /\ Len(received) = 2
    /\ Count(sent, IsQuery) = 1

\* C3: the driver goes on to the TLS upgrade, and sends StartupMessage or any
\* later message, only if the one byte it read after RequestSSL is 'S'; after
\* any other outcome of that read (another byte, nothing delivered, an error)
\* the run has ended fatally having sent RequestSSL alone.
C3_SslAckGate ==
    LET acks == Count(trace, LAMBDA e : e.op = "read" /\ e.what \in { "eof", "byte" })
    IN  /\ (pc \in { "tls", "startup", "loop" } \/ Len(sent) > 1 \/ Len(received) > 0
              \/ result \in { "Ok", "TlsError", "TlsHandshakeError" })
           => (buf = chS /\ acks = 1 /\ trace[2] = Event("read", "", "byte"))
        /\ acks <= 1
        /\ (acks = 1 /\ buf # chS)
           => (pc = "exit" /\ result = "Panic" /\ sent = << RequestSSL >>)
        /\ (fault = "read")
           => (pc = "exit" /\ result = "IoError" /\ sent = << RequestSSL >>)

C3_Witness ==
    /\ buf = 78
    /\ pc = "exit"
    /\ result = "Panic"
    /\ sent = << RequestSSL >>

\* C4: a step of the loop that receives ReadyForQuery with status Transaction
\* or FailedTransaction, or AuthenticationOk, AuthenticationSasl,
\* BackendKeyData, ParameterStatus, Unknown or ErrorResponse, sends nothing,
\* prints no outbound record, leaves requested unchanged, does not end the run
\* and leaves the driver in the loop, about to read the next message.
C4_InertMessages ==
    [][ (Received /\ IsInert(JustReceived))
        => /\ sent' = sent
           /\ wire' = wire
           /\ trace' = trace \o << Event("read", "", JustReceived.variant),
                                   Event("println", "<--", JustReceived.variant) >>
           /\ requested' = requested
           /\ pc' = "loop"
           /\ result' = "Running"
           /\ fault' = "" ]_vars

C4_Witness ==
    /\ pc = "loop"
    /\ Len(received) = 3
    /\ \A i \in 1..3 : IsInert(received[i])
    /\ received[1].variant = "ErrorResponse"
    /\ received[2].status = "FailedTransaction"
    /\ received[3].variant = "Unknown"

C5_ReadRecords ==
    << Event("read", "", "AuthenticationCleartextPassword"),
       Event("println", "<--", "AuthenticationCleartextPassword") >>

\* C5: a step of the loop that receives AuthenticationCleartextPassword
\* prints and writes exactly one PasswordMessage, carrying the configured
\* password, leaves requested unchanged and, unless the write fails, stays in
\* the loop; a failed write leaves at most a part of the frame on the stream
\* and ends the run.
C5_PasswordPerRequest ==
    [][ (Received /\ IsCleartext(JustReceived))
        => LET pm == PasswordMessage(config.password)
           IN  /\ requested' = requested
               /\ \/ /\ sent' = Append(sent, pm)
                     /\ wire' = wire \o to_bytes(pm)
                     /\ trace' = trace \o C5_ReadRecords
                                \o << Event("println", "-->", "PasswordMessage"),
                                      Event("write", "", "PasswordMessage") >>
                     /\ pc' = "loop" /\ result' = "Running" /\ fault' = ""
                  \/ /\ sent' = sent
                     /\ \E taken \in 0..(Len(to_bytes(pm)) - 1) :
                            wire' = wire \o Slice(to_bytes(pm), 0, taken)
                     /\ trace' = trace \o C5_ReadRecords
                                \o << Event("println", "-->", "PasswordMessage") >>
                     /\ pc' = "exit" /\ result' = "IoError" /\ fault' = "write" ]_vars

C5_Witness ==
    /\ pc = "loop"
    /\ Count(received, IsCleartext) = 2
    /\ Count(sent, IsPassword) = 2
    /\ sent[Len(sent)] = PasswordMessage(config.password)
    /\ config.password # config.user

\* The result run ends with when the step named by fault fails.
FaultResults(step) ==
    CASE step = "connect"      -> { "IoError" }
      [] step = "write"        -> { "IoError" }
      [] step = "read"         -> { "IoError" }
      [] step = "ack"          -> { "Panic" }
      [] step = "tls"          -> { "TlsError", "TlsHandshakeError" }
      [] step = "read_message" -> { "IoError", "ParseMessageError", "Panic" }
      [] OTHER                 -> {}

\* C6: once a step has failed (a write, a read, a decode, the TLS upgrade,
\* the connect, the check of the SSL answer) the run has ended with the error
\* of that step, and from then on nothing is sent, read or retried.
C6_FailureIsFinal ==
    /\ [](fault # "" => (pc = "exit" /\ result \in FaultResults(fault)))
    /\ [][ fault # "" => UNCHANGED vars ]_vars
    /\ [][ fault' # "" => (fault = "" /\ reads' <= reads + 1 /\ Len(sent') = Len(sent)) ]_vars

C6_Witness ==
    /\ fault = "write"
    /\ result = "IoError"
    /\ pc = "exit"
    /\ Len(sent) = 3
    /\ Len(received) = 2

(***************************************************************************)
(* Properties of the codec, checked under CodecSpec                        *)
(***************************************************************************)

\* The number of tag bytes the wire format gives a variant.
TagLen(m) == IF m.variant \in { "PasswordMessage", "SimpleQuery" } THEN 1 ELSE 0

\* The payload the field encoding rules give a message: big-endian 16-bit
\* numbers and null-terminated strings.
WirePayload(m) ==
    CASE m.variant = "RequestSSL" -> << 4, 210, 22, 47, 0 >>
      [] m.variant = "StartupMessage" ->
            << 0, 3, 0, 0 >> \o << 117, 115, 101, 114, 0 >> \o m.user \o << 0 >>
                \o << 100, 97, 116, 97, 98, 97, 115, 101, 0 >> \o m.database \o << 0 >>
                \o << 0 >>
      [] m.variant = "PasswordMessage" -> m.password \o << 0 >> \o << 0 >>
      [] m.variant = "SimpleQuery" -> m.query \o << 0 >>

\* C7: in the frame to_bytes produces, for every variant and field value, the
\* 4-byte big-endian length field equals payload.len() + 4, the frame is
\* exactly the optional tag byte, the length field and the payload, and a
\* reader that takes the tag, the length field and then length - 4 bytes has
\* taken the whole frame and holds the payload.
C7_LengthInvariant ==
    enc.state = "done"
    => LET m       == enc.message
           frame   == enc.bytes
           t       == TagLen(m)
           payload == WirePayload(m)
           length  == u32_to_usize(u32_from_be_bytes(Slice(frame, t, t + 4)))
           tagged  == IF t = 1 THEN frame ELSE << 0 >> \o frame
           r       == read_message(TRUE, tagged)
       IN  /\ Len(frame) >= t + 4
           /\ length = Len(payload) + 4
           /\ Slice(frame, t + 4, Len(frame)) = payload
           /\ Len(frame) = t + 4 + (length - 4)
           /\ r.kind = "Ok"
           /\ r.consumed = Len(tagged)
           /\ r.message.payload = payload

C7_Witness ==
    /\ enc.state = "done"
    /\ enc.message.variant = "StartupMessage"
    /\ Len(enc.message.user) = 2
    /\ Len(enc.message.database) = 1
    /\ Len(enc.bytes) = 28

\* C8: the frames of RequestSSL and StartupMessage begin with the 4-byte
\* length field, which counts the whole frame; the frames of PasswordMessage
\* begin with the tag 'p' and those of SimpleQuery with the tag 'Q', each
\* followed by the length field, which counts the frame less the tag.
C8_TagBytes ==
    enc.state = "done"
    => LET m     == enc.message
           frame == enc.bytes
       IN  CASE m.variant \in { "RequestSSL", "StartupMessage" } ->
                   /\ Len(frame) >= 4
                   /\ Slice(frame, 0, 4) = process_u32(Len(frame))
             [] m.variant = "PasswordMessage" ->
                   /\ Len(frame) >= 5
                   /\ frame[1] = 112
                   /\ Slice(frame, 1, 5) = process_u32(Len(frame) - 1)
             [] m.variant = "SimpleQuery" ->
                   /\ Len(frame) >= 5
                   /\ frame[1] = 81
                   /\ Slice(frame, 1, 5) = process_u32(Len(frame) - 1)

C8_Witness ==
    /\ enc.state = "done"
    /\ enc.message.variant = "PasswordMessage"
    /\ enc.message.password = << 97, 98 >>
    /\ enc.bytes = << 112, 0, 0, 0, 8, 97, 98, 0, 0 >>

\* C9: read_message takes from the stream exactly one tag byte, 4 length
\* bytes and length - 4 payload bytes, whatever the tag, and when the stream
\* ends before these reads are complete the outcome is an I/O error.
C9_ExactRead ==
    dec.state = "done"
    => LET s == dec.stream
           r == dec.outcome
       IN  IF Len(s) < 5
           THEN r.kind = "IoError"
           ELSE LET length == u32_from_be_bytes(Slice(s, 1, 5))
                IN  IF length.hi = 0 /\ Len(s) >= 1 + 4 + (length.lo - 4)
                    THEN r.kind # "IoError" /\ r.consumed = 1 + 4 + (length.lo - 4)
                    ELSE r.kind = "IoError"

\* C10: a frame whose length field is below 4 makes read_message return a
\* ParseError, for every tag.
C10_ShortLengthIsParseError ==
    (dec.state = "done" /\ Len(dec.stream) >= 5
        /\ ~u32_exceeds(u32_from_be_bytes(Slice(dec.stream, 1, 5)), 3))
    => dec.outcome.kind = "ParseError"

\* The stream of a finished call is one whole frame: a tag, a length field
\* of 4 or more, and exactly length - 4 bytes of payload.
WholeFrame ==
    /\ dec.state = "done"
    /\ Len(dec.stream) >= 5
    /\ u32_is(u32_from_be_bytes(Slice(dec.stream, 1, 5)), Len(dec.stream) - 1)

FrameTag == dec.stream[1]

FramePayload == Slice(dec.stream, 5, Len(dec.stream))

\* C11: a whole frame whose tag is none of R, E, K, Z, S decodes, whatever
\* its payload, to Unknown with the tag as prefix and the raw payload, without
\* error.
C11_UnknownTag ==
    (WholeFrame /\ FrameTag \notin { 82, 69, 75, 90, 83 })
    => /\ dec.outcome.kind = "Ok"
       /\ dec.outcome.message.variant = "Unknown"
       /\ dec.outcome.message.prefix = FrameTag
       /\ dec.outcome.message.payload = FramePayload
       /\ dec.outcome.consumed = Len(dec.stream)

C11_Witness ==
    /\ WholeFrame
    /\ FrameTag = 200
    /\ FramePayload = << 195, 0, 73 >>
    /\ dec.outcome.kind = "Ok"
    /\ dec.outcome.message.variant = "Unknown"

\* C12: a frame with tag 'Z' and length 5 decodes to ReadyForQuery with
\* status Idle for the payload byte 'I', Transaction for 'T' and
\* FailedTransaction for 'E', and is a ParseError for every other byte.
C12_StatusMapping ==
    (WholeFrame /\ FrameTag = 90 /\ Len(FramePayload) = 1)
    => LET b == FramePayload[1]
           r == dec.outcome
       IN  IF b \in { 73, 84, 69 }
           THEN /\ r.kind = "Ok"
                /\ r.message.variant = "ReadyForQuery"
                /\ r.message.status = (CASE b = 73 -> "Idle"
                                         [] b = 84 -> "Transaction"
                                         [] b = 69 -> "FailedTransaction")
           ELSE r.kind = "ParseError"

C12_Witness ==
    /\ WholeFrame
    /\ FrameTag = 90
    /\ FramePayload = << 105 >>
    /\ dec.outcome.kind = "ParseError"

\* The text and the records of an 'E' frame: the payload without its last
\* two bytes, split on null bytes.
ErrorText == Slice(FramePayload, 0, Len(FramePayload) - 2)

ErrorRecords == split_nul(ErrorText)

ErrorFrame == WholeFrame /\ FrameTag = 69

\* C13: a tag 'E' frame decodes to ErrorResponse holding one entry for each
\* null-separated record of the payload without its last two bytes, keyed by
\* the field of the record's first character and valued by the rest of the
\* record; the records "Sfatal\0Ccode\0" give {LocalizedSeverity: "fatal",
\* Code: "code"}.
C13_ErrorRecords ==
    (ErrorFrame /\ Len(FramePayload) >= 2 /\ from_utf8_ok(ErrorText))
    => /\ dec.outcome.kind = "Ok"
       /\ dec.outcome.message.variant = "ErrorResponse"
       /\ Cardinality(dec.outcome.message.error) = Len(ErrorRecords)
       /\ \A i \in 1..Len(ErrorRecords) :
              Len(ErrorRecords[i]) > 0
              => << error_field(ErrorRecords[i][1]), Tail(ErrorRecords[i]) >>
                     \in dec.outcome.message.error
       /\ FramePayload = << 83, 102, 97, 116, 97, 108, 0, 67, 99, 111, 100, 101, 0, 0 >>
          => dec.outcome.message.error =
                 { << << "LocalizedSeverity", 0 >>, << 102, 97, 116, 97, 108 >> >>,
                   << << "Code", 0 >>, << 99, 111, 100, 101 >> >> }

\* C14: a tag 'E' frame of any length decodes to ErrorResponse whatever the
\* codes of its records: a record with an unknown code, or an empty record,
\* gets an entry under ErrorField::Unknown and never makes decoding fail.
C14_UnknownCodesDegrade ==
    (ErrorFrame /\ (Len(FramePayload) >= 2 => from_utf8_ok(ErrorText)))
    => /\ dec.outcome.kind = "Ok"
       /\ dec.outcome.message.variant = "ErrorResponse"
       /\ Len(FramePayload) >= 2
          => \A i \in 1..Len(ErrorRecords) :
                 \/ /\ Len(ErrorRecords[i]) = 0
                    /\ \E e \in dec.outcome.message.error : e[1] = << "Unknown", 0 >>
                 \/ /\ Len(ErrorRecords[i]) > 0
                    /\ \E e \in dec.outcome.message.error :
                           ErrorRecords[i][1] < 128 => e[1] = error_field(ErrorRecords[i][1])

\* An 'R' frame whose payload starts with the SASL code.
SaslFrame ==
    /\ WholeFrame
    /\ FrameTag = 82
    /\ Len(FramePayload) >= 4
    /\ Slice(FramePayload, 0, 4) = << 0, 0, 0, 10 >>

\* The bytes between byte 4 and the last two bytes of a payload of 6 bytes
\* or more.
SaslText == Slice(FramePayload, 4, Len(FramePayload) - 2)

\* C15: a tag 'R' frame of any length whose payload starts with [0,0,0,10]
\* decodes to AuthenticationSasl, its mechanisms being in order the pieces
\* between null bytes of the payload from byte 4 to the last two bytes; so
\* does the frame of length 8 whose payload is the prefix alone.
C15_SaslMechanisms ==
    (SaslFrame /\ (Len(FramePayload) >= 6 => from_utf8_ok(SaslText)))
    => /\ dec.outcome.kind = "Ok"
       /\ dec.outcome.message.variant = "AuthenticationSasl"
       /\ Len(FramePayload) >= 6 => dec.outcome.message.mechanisms = split_nul(SaslText)

ParameterFrame == WholeFrame /\ FrameTag = 83

\* C16: a tag 'S' frame decodes to ParameterStatus, the name being the
\* payload bytes before the first null byte and the value the bytes after it
\* up to but without the last byte; a payload with no null byte, or whose
\* only null byte is its last byte, is a ParseError.
C16_ParameterStatus ==
    ParameterFrame
    => LET index == position_nul(FramePayload)
           name  == Slice(FramePayload, 0, index)
           value == Slice(FramePayload, index + 1, Len(FramePayload) - 1)
       IN  IF index < 0 \/ index = Len(FramePayload) - 1
           THEN dec.outcome.kind = "ParseError"
           ELSE (from_utf8_ok(name) /\ from_utf8_ok(value))
                => /\ dec.outcome.kind = "Ok"
                   /\ dec.outcome.message.variant = "ParameterStatus"
                   /\ dec.outcome.message.name = name
                   /\ dec.outcome.message.value = value

\* A byte string that is certainly not UTF-8: it holds a byte no encoding
\* uses, a continuation byte not preceded by a byte of a multi-byte
\* character, or a byte opening a multi-byte character not followed by a
\* continuation byte.
Malformed(s) ==
    \E i \in 1..Len(s) :
        \/ s[i] \in { 192, 193 } \cup (245..255)
        \/ s[i] \in 128..191 /\ (i = 1 \/ s[i - 1] < 128)
        \/ s[i] \in 194..244 /\ (i = Len(s) \/ s[i + 1] \notin 128..191)

\* The string fields of a whole frame, as byte strings: the SASL mechanism
\* list, the ErrorResponse records, the ParameterStatus name and value.
StringFields ==
    IF SaslFrame /\ Len(FramePayload) >= 6 THEN { SaslText }
    ELSE IF ErrorFrame /\ Len(FramePayload) >= 2 THEN { ErrorText }
    ELSE IF ParameterFrame /\ position_nul(FramePayload) >= 0
         THEN LET index == position_nul(FramePayload)
              IN  { Slice(FramePayload, 0, index) }
                      \cup (IF index + 1 <= Len(FramePayload) - 1
                            THEN { Slice(FramePayload, index + 1, Len(FramePayload) - 1) }
                            ELSE {})
    ELSE {}

\* C17: a frame with malformed UTF-8 in a string field (SASL mechanism list,
\* ErrorResponse records, ParameterStatus name or value) is a ParseError:
\* read_message neither aborts nor returns a message.
C17_MalformedUtf8 ==
    (WholeFrame /\ \E f \in StringFields : Malformed(f))
    => /\ dec.outcome.kind = "ParseError"
       /\ dec.outcome.message = BackendMessage("None")

C17_Witness ==
    /\ ParameterFrame
    /\ FramePayload = << 97, 0, 169, 0 >>
    /\ dec.outcome.kind = "ParseError"

\* The variants read_message can return.
BackendVariants ==
    { "AuthenticationOk", "AuthenticationCleartextPassword", "AuthenticationSasl",
      "ErrorResponse", "BackendKeyData", "ReadyForQuery", "ParameterStatus", "Unknown" }

\* C18: every message written to the server (RequestSSL, StartupMessage,
\* PasswordMessage, SimpleQuery) comes right after an outbound log line of
\* that message, and every message read is followed by its inbound log line
\* before the loop dispatches on it.
C18_LoggedBeforeActing ==
    \A i \in DOMAIN trace :
        /\ trace[i].op = "write"
           => i > 1 /\ trace[i - 1] = Event("println", "-->", trace[i].what)
        /\ (trace[i].op = "read" /\ trace[i].what \in BackendVariants)
           => i < Len(trace) /\ trace[i + 1] = Event("println", "<--", trace[i].what)

\* A whole frame with a handled tag and a shape no decode rule lists.
UnlistedShape ==
    /\ WholeFrame
    /\ \/ FrameTag = 75 /\ Len(FramePayload) # 8
       \/ FrameTag = 90 /\ Len(FramePayload) # 1
       \/ /\ FrameTag = 82
          /\ FramePayload # << 0, 0, 0, 3 >>
          /\ FramePayload # << 0, 0, 0, 0 >>
          /\ ~(Len(FramePayload) >= 4 /\ Slice(FramePayload, 0, 4) = << 0, 0, 0, 10 >>)

\* C19: a frame with tag 'K' and a length other than 12, tag 'Z' and a
\* length other than 5, or tag 'R' and a payload (of any size, under 4 bytes
\* included) that is neither [0,0,0,3], nor [0,0,0,0] at length 8, nor
\* prefixed by [0,0,0,10], decodes to Unknown with the tag and the raw
\* payload, without ParseError and without aborting.
C19_UnlistedShapeIsUnknown ==
    UnlistedShape
    => /\ dec.outcome.kind = "Ok"
       /\ dec.outcome.message.variant = "Unknown"
       /\ dec.outcome.message.prefix = FrameTag
       /\ dec.outcome.message.payload = FramePayload

\* The runs of the driver against a cooperative server: the SSL ack is 'S',
\* no connect, TLS upgrade, read or write fails, every frame decodes, and the
\* server does not withhold the two ReadyForQuery{Idle} past the reads the
\* model allows.
Cooperative ==
    /\ fault' = ""
    /\ pc' = "loop" => MaxReads - reads' >= 2 - Count(received', IsIdle)

LiveConnect == Connect /\ Cooperative

LiveSendRequestSSL == SendRequestSSLIf({ TRUE }) /\ Cooperative

LiveReadSSLAck == ReadSSLAck /\ Cooperative

LiveTlsUpgrade == TlsUpgrade /\ Cooperative

LiveSendStartup == SendStartupIf({ TRUE }) /\ Cooperative

LiveLoopStep == LoopStepIf({ TRUE }) /\ Cooperative

LiveNext ==
    \/ LiveConnect
    \/ LiveSendRequestSSL
    \/ LiveReadSSLAck
    \/ LiveTlsUpgrade
    \/ LiveSendStartup
    \/ LiveLoopStep

\* run is one sequential thread over blocking calls: when the server
\* answers, the call returns and the next statement runs.
LiveSpec == Init /\ [][LiveNext]_vars /\ WF_vars(LiveNext)

\* C20: against a cooperative server the driver eventually terminates with
\* Ok, and it does not terminate before the second ReadyForQuery{Idle} has
\* been received: as long as the server withholds it, the driver is in its
\* loop, running.
C20_TerminatesOnSecondIdle ==
    /\ <>(pc = "exit" /\ result = "Ok")
    /\ [](Count(received, IsIdle) < 2 => (pc # "exit" /\ result = "Running"))
    /\ [](pc = "exit" => Count(received, IsIdle) = 2)

C20_Witness ==
    /\ pc = "exit"
    /\ result = "Ok"
    /\ Len(received) = 4
    /\ IsInert(received[1])
    /\ IsIdle(received[2])
    /\ IsInert(received[3])
    /\ IsIdle(received[4])

=============================================================================
